---------------------------- MODULE Spec2Model ----------------------------
(***************************************************************************)
(* A model of patches/kaggle_gcp.py: the integration registry built from   *)
(* KAGGLE_KERNEL_INTEGRATIONS, the KaggleKernelCredentials refresh, the    *)
(* _DataProxyConnection error wrapper, the BigQuery / GCS client wrappers  *)
(* and the guarded monkeypatching done by init().                          *)
(*                                                                         *)
(* Python values are records tagged by their class in the field py, so     *)
(* that None, strings and objects can be compared with each other.         *)
(* Strings whose characters matter (the integrations list) are sequences   *)
(* of ASCII codes.                                                         *)
(***************************************************************************)
EXTENDS Integers, Sequences, FiniteSets, TLC

VARIABLES
    os_environ,           \* the process environment read by os.getenv / os.environ
    bigquery_Client,      \* the callable bound to google.cloud.bigquery.Client
    storage_Client_init,  \* the callable bound to google.cloud.storage.Client.__init__
    magics_credentials,   \* google.cloud.bigquery.magics.context.credentials
    pc,                   \* per thread: position inside init()
    bq_client,            \* per thread: init_bigquery's local bq_client
    gcs_client_init,      \* per thread: init_gcs's local gcs_client_init
    assigned,             \* how many times each vendor attribute was assigned a wrapper
    inits,                \* completed init() calls
    creds,                \* the KaggleKernelCredentials object under refresh (or None)
    connection,           \* the _DataProxyConnection object in use (or None)
    last                  \* observation of the most recently completed call

vars == <<os_environ, bigquery_Client, storage_Client_init, magics_credentials,
          pc, bq_client, gcs_client_init, assigned, inits, creds, connection, last>>

-----------------------------------------------------------------------------
(* Bounds of the model *)

\* tokens in a generated KAGGLE_KERNEL_INTEGRATIONS value
MaxTokens == 3

\* init() calls in one behaviour
MaxInits == 2

\* threads running init() concurrently
NumThreads == 2

\* distinct tokens the vault can mint
NumTokens == 2

\* distinct exception / response instances of each kind
NumObjects == 2

\* wrapper layers a callable is allowed to grow to
MaxLayers == 3

-----------------------------------------------------------------------------
(* Python values *)

None == [py |-> "None"]

\* a keyword that is not present in kwargs
Omitted == [py |-> "omitted"]

Str(s) == [py |-> "str", s |-> s]

\* a str given by its characters
Chars(cs) == [py |-> "str", chars |-> cs]

\* bool(v) for the values that reach a truth test
Truthy(v) ==
    /\ v # None
    /\ ~(v.py = "str" /\ v = Str(""))

\* a or b
PyOr(a, b) == IF Truthy(a) THEN a ELSE b

\* an event on the log or on stdout
Event(chan, msg, arg) == [chan |-> chan, msg |-> msg, arg |-> arg]

-----------------------------------------------------------------------------
(* kaggle_secrets.GcpTarget as kaggle_gcp.py uses it *)

\* the members of the enumeration
GcpTarget == {"BIGQUERY", "GCS", "AUTOML"}

\* the member's name, as ASCII codes
TargetName(t) ==
    CASE t = "BIGQUERY" -> <<66, 73, 71, 81, 85, 69, 82, 89>>
      [] t = "GCS"      -> <<71, 67, 83>>
      [] t = "AUTOML"   -> <<65, 85, 84, 79, 77, 76>>

\* target.service, the display name used in the hints
Service(t) ==
    CASE t = "BIGQUERY" -> "BigQuery"
      [] t = "GCS"      -> "Google Cloud Storage"
      [] t = "AUTOML"   -> "Cloud AutoML"

\* GcpTarget[name]: the member of that name, or KeyError
GcpTarget_getitem(name) ==
    IF \E t \in GcpTarget : TargetName(t) = name
    THEN [raised |-> None, value |-> CHOOSE t \in GcpTarget : TargetName(t) = name]
    ELSE [raised |-> [py |-> "KeyError", arg |-> name], value |-> "BIGQUERY"]

-----------------------------------------------------------------------------
(* str methods used on the integrations list *)

Colon == 58

\* one character of str.upper() (ASCII)
UpperChar(c) == IF c \in 97..122 THEN c - 32 ELSE c

\* integration.upper()
str_upper(cs) == [i \in 1..Len(cs) |-> UpperChar(cs[i])]

\* kernel_integrations_var.split(':')
RECURSIVE str_split(_)
str_split(cs) ==
    IF \A i \in 1..Len(cs) : cs[i] # Colon
    THEN <<cs>>
    ELSE LET i == CHOOSE k \in 1..Len(cs) :
                      /\ cs[k] = Colon
                      /\ \A j \in 1..(k - 1) : cs[j] # Colon
         IN  <<SubSeq(cs, 1, i - 1)>> \o str_split(SubSeq(cs, i + 1, Len(cs)))

-----------------------------------------------------------------------------
(* class KernelIntegrations *)

\* KernelIntegrations(): self.integrations = {}
KernelIntegrations == [integrations |-> <<>>]

\* the dict with key k set to True
DictSet(d, k) == [x \in (DOMAIN d) \cup {k} |-> TRUE]

add_integration(self, target) ==
    [self EXCEPT !.integrations = DictSet(self.integrations, target)]

has_integration(self, target) == target \in DOMAIN self.integrations

has_bigquery(self) == "BIGQUERY" \in DOMAIN self.integrations

\* has_gcs asking for the wrong target
has_gcs_asking_automl(self) == "AUTOML" \in DOMAIN self.integrations

has_gcs(self) == "GCS" \in DOMAIN self.integrations

has_automl(self) == "AUTOML" \in DOMAIN self.integrations

-----------------------------------------------------------------------------
(* get_integrations *)

\* The state of one run of get_integrations: the registry being built, what
\* was logged, and the exception that left the function (None: none).
ParseState(ki, log, raised) == [kernel_integrations |-> ki, log |-> log, raised |-> raised]

\* integration_body with the .upper() left out: GcpTarget[integration]
integration_body_case_sensitive(st, integration) ==
    LET looked == GcpTarget_getitem(integration)
    IN  IF looked.raised = None
        THEN ParseState(add_integration(st.kernel_integrations, looked.value),
                        st.log, None)
        ELSE ParseState(st.kernel_integrations,
                        Append(st.log, Event("Log.error", "Unknown integration target",
                                             looked.raised.arg)),
                        None)

\* the body of the for loop: try / except KeyError
integration_body(st, integration) ==
    LET looked == GcpTarget_getitem(str_upper(integration))
    IN  IF looked.raised = None
        THEN ParseState(add_integration(st.kernel_integrations, looked.value),
                        st.log, None)
        ELSE ParseState(st.kernel_integrations,
                        Append(st.log, Event("Log.error", "Unknown integration target",
                                             looked.raised.arg)),
                        None)

RECURSIVE integration_loop(_, _)
integration_loop(st, tokens) ==
    IF tokens = <<>> \/ st.raised # None
    THEN st
    ELSE integration_loop(integration_body(st, Head(tokens)), Tail(tokens))

\* get_integrations answering from a registry parsed once, at import, from
\* "bigquery:gcs", whatever the variable holds now
get_integrations_cached(kernel_integrations_var) ==
    integration_loop(ParseState(KernelIntegrations, <<>>, None),
                     << <<98, 105, 103, 113, 117, 101, 114, 121>>, <<103, 99, 115>> >>)

\* get_integrations(), of the value of KAGGLE_KERNEL_INTEGRATIONS
get_integrations(kernel_integrations_var) ==
    IF kernel_integrations_var = None
    THEN ParseState(KernelIntegrations, <<>>, None)
    ELSE integration_loop(ParseState(KernelIntegrations, <<>>, None),
                          str_split(kernel_integrations_var.chars))

-----------------------------------------------------------------------------
(* Values of KAGGLE_KERNEL_INTEGRATIONS *)

\* "bigquery", "GCS", "AutoMl", "gcs", "bq" and the empty token
TokenPool ==
    { <<98, 105, 103, 113, 117, 101, 114, 121>>,
      <<71, 67, 83>>,
      <<65, 117, 116, 111, 77, 108>>,
      <<103, 99, 115>>,
      <<98, 113>>,
      <<>> }

RECURSIVE JoinColon(_)
JoinColon(ts) ==
    IF Len(ts) = 1 THEN ts[1] ELSE ts[1] \o <<Colon>> \o JoinColon(Tail(ts))

TokenLists == UNION { [1..n -> TokenPool] : n \in 1..MaxTokens }

\* every value the variable is given in the registry specification
IntegrationValues == {None} \cup { Chars(JoinColon(ts)) : ts \in TokenLists }

\* the lower-case list of the targets in ts, e.g. "bigquery:gcs"
LowerName(t) == [i \in 1..Len(TargetName(t)) |-> TargetName(t)[i] + 32]

\* the values the variable is given where only the registry's content matters
KnownIntegrationValues ==
    { None,
      Chars(LowerName("BIGQUERY")),
      Chars(LowerName("GCS")),
      Chars(LowerName("BIGQUERY") \o <<Colon>> \o LowerName("GCS")),
      Chars(LowerName("AUTOML") \o <<Colon>> \o <<98, 113>>) }

-----------------------------------------------------------------------------
(* The token vault: UserSecretsClient and its access-token methods *)

\* the k-th token and the expiry minted with it
Token(k) == [py |-> "str", token |-> k]

Expiry(k) == [py |-> "datetime", of_token |-> k]

\* the classes an exception raised inside the try block can have;
\* ConnectionResetError is a subclass of ConnectionError
VaultErrorClasses == {"ConnectionError", "ConnectionResetError", "BackendError"}

IsConnectionError(e) == e.py \in {"ConnectionError", "ConnectionResetError"}

\* what one call of an access-token method can do: return a (token, expiry)
\* pair or raise
VaultOutcomes ==
    { [raised |-> None, value |-> <<Token(k), Expiry(k)>>] : k \in 1..NumTokens }
    \cup
    { [raised |-> [py |-> c, id |-> n], value |-> <<None, None>>] :
          c \in VaultErrorClasses, n \in 1..NumObjects }

-----------------------------------------------------------------------------
(* class KaggleKernelCredentials *)

\* __init__: google.auth's Credentials.__init__ sets token and expiry to None
KaggleKernelCredentials(target) ==
    [py |-> "KaggleKernelCredentials", target |-> target,
     token |-> None, expiry |-> None]

\* token_method with the GCS branch calling the BigQuery method
token_method_gcs_as_bigquery(target) ==
    CASE target = "BIGQUERY" -> "get_bigquery_access_token"
      [] target = "GCS"      -> "get_bigquery_access_token"
      [] target = "AUTOML"   -> "_get_automl_access_token"

\* the UserSecretsClient method refresh calls for the credential's target
token_method(target) ==
    CASE target = "BIGQUERY" -> "get_bigquery_access_token"
      [] target = "GCS"      -> "_get_gcs_access_token"
      [] target = "AUTOML"   -> "_get_automl_access_token"

RefreshError(msg, cause) == [py |-> "RefreshError", msg |-> msg, cause |-> cause]

\* refresh_assign storing the token and leaving the expiry as it was
refresh_assign_token_only(self, pair) ==
    [self |-> [self EXCEPT !.token = pair[1]],
     out |-> << >>, raised |-> None]

\* self.token, self.expiry = <the pair the access-token method returned>
refresh_assign(self, pair) ==
    [self |-> [self EXCEPT !.token = pair[1], !.expiry = pair[2]],
     out |-> << >>, raised |-> None]

\* the except Exception clause with the test of has_integration not negated:
\* the hint is given when the target is enabled
refresh_other_error_hint_when_enabled(self, e) ==
    LET found == get_integrations(os_environ.KAGGLE_KERNEL_INTEGRATIONS)
    IN  [self |-> self,
         out |-> << Event("Log.error", "Error trying to refresh access token", e) >>
                 \o found.log
                 \o (IF has_integration(found.kernel_integrations, self.target)
                     THEN << Event("Log.error", "No integration found", Service(self.target)),
                             Event("print", "select account hint", Service(self.target)) >>
                     ELSE << >>),
         raised |-> RefreshError("Unable to refresh access token.", e)]

\* the except Exception clause dropping the token and expiry it holds
refresh_other_error_clearing_token(self, e) ==
    LET found == get_integrations(os_environ.KAGGLE_KERNEL_INTEGRATIONS)
    IN  [self |-> [self EXCEPT !.token = None, !.expiry = None],
         out |-> << Event("Log.error", "Error trying to refresh access token", e) >>
                 \o found.log
                 \o (IF ~has_integration(found.kernel_integrations, self.target)
                     THEN << Event("Log.error", "No integration found", Service(self.target)),
                             Event("print", "select account hint", Service(self.target)) >>
                     ELSE << >>),
         raised |-> RefreshError("Unable to refresh access token.", e)]

\* the except Exception clause
refresh_other_error(self, e) ==
    LET found == get_integrations(os_environ.KAGGLE_KERNEL_INTEGRATIONS)
    IN  [self |-> self,
         out |-> << Event("Log.error", "Error trying to refresh access token", e) >>
                 \o found.log
                 \o (IF ~has_integration(found.kernel_integrations, self.target)
                     THEN << Event("Log.error", "No integration found", Service(self.target)),
                             Event("print", "select account hint", Service(self.target)) >>
                     ELSE << >>),
         raised |-> RefreshError("Unable to refresh access token.", e)]

\* the except ConnectionError clause placed after except Exception, where it
\* is never reached: a connection error is handled as any other error
refresh_connection_error_as_other(self, e) == refresh_other_error(self, e)

\* the except ConnectionError clause
refresh_connection_error(self, e) ==
    [self |-> self,
     out |-> << Event("Log.error", "Connection error trying to refresh access token", e),
                Event("print", "connection hint", Service(self.target)) >>,
     raised |-> RefreshError("Unable to refresh access token due to connection error.", e)]

\* refresh(self, request), where vault is what the access-token method does
refresh(self, vault) ==
    LET r == IF vault.raised = None
             THEN refresh_assign(self, vault.value)
             ELSE IF IsConnectionError(vault.raised)
             THEN refresh_connection_error(self, vault.raised)
             ELSE refresh_other_error(self, vault.raised)
    IN  [self |-> r.self, out |-> r.out, raised |-> r.raised,
         fetched |-> << token_method(self.target) >>]

-----------------------------------------------------------------------------
(* class _DataProxyConnection *)

\* __init__: the proxy token is read from the environment into extra_headers
DataProxyConnection ==
    [py |-> "_DataProxyConnection",
     extra_headers |-> [X_KAGGLE_PROXY_DATA |-> os_environ.KAGGLE_DATA_PROXY_TOKEN]]

\* what Connection.api_request can do with one request: return a response
\* or raise Forbidden or another error
TransportOutcomes ==
    { [raised |-> None, value |-> [py |-> "response", id |-> n]] : n \in 1..NumObjects }
    \cup
    { [raised |-> [py |-> c, id |-> n], value |-> None] :
          c \in {"Forbidden", "NotFound"}, n \in 1..NumObjects }

\* the except Forbidden clause without its raise: the hint, then a None result
api_request_forbidden_swallowed(e) ==
    [raised |-> None, value |-> None,
     out |-> << Event("print", "public integration permission hint", None),
                Event("Log.info", "public integration permission hint", None) >>]

\* the except Forbidden clause
api_request_forbidden(e) ==
    [raised |-> e, value |-> None,
     out |-> << Event("print", "public integration permission hint", None),
                Event("Log.info", "public integration permission hint", None) >>]

\* the requests a client sends: (method, path)
Requests == { <<"GET", "/projects">>, <<"POST", "/queries">> }

\* api_request taking the header from the environment at each request
\* instead of from the connection
api_request_rereading_token(self, request, transport) ==
    LET r == IF transport.raised # None /\ transport.raised.py = "Forbidden"
             THEN api_request_forbidden(transport.raised)
             ELSE [raised |-> transport.raised, value |-> transport.value, out |-> << >>]
    IN  [raised |-> r.raised, value |-> r.value, out |-> r.out,
         sent |-> [request |-> request,
                   headers |-> [X_KAGGLE_PROXY_DATA |-> os_environ.KAGGLE_DATA_PROXY_TOKEN]]]

\* api_request(self, *args, **kwargs), where transport is what
\* Connection.api_request does with the request
api_request(self, request, transport) ==
    LET r == IF transport.raised # None /\ transport.raised.py = "Forbidden"
             THEN api_request_forbidden(transport.raised)
             ELSE [raised |-> transport.raised, value |-> transport.value, out |-> << >>]
    IN  [raised |-> r.raised, value |-> r.value, out |-> r.out,
         sent |-> [request |-> request, headers |-> self.extra_headers]]

-----------------------------------------------------------------------------
(* Callables: the vendor constructors and the wrappers kaggle_gcp installs *)

\* google.cloud.bigquery.Client as the library defines it
vendor_bigquery_Client ==
    [py |-> "class", name |-> "Client",
     file |-> <<"google", "cloud", "bigquery", "client.py">>]

\* google.cloud.storage.Client.__init__ as the library defines it
vendor_storage_Client_init ==
    [py |-> "function", name |-> "__init__",
     file |-> <<"google", "cloud", "storage", "client.py">>]

\* lambda *args, **kwargs: monkeypatch_bq(bq_client, *args, **kwargs)
bq_lambda(inner) ==
    [py |-> "function", name |-> "<lambda>", file |-> <<"kaggle_gcp.py">>,
     bq_client |-> inner]

\* the function monkeypatch_gcs, closed over gcs_client_init
gcs_function(inner) ==
    [py |-> "function", name |-> "monkeypatch_gcs", file |-> <<"kaggle_gcp.py">>,
     gcs_client_init |-> inner]

\* inspect.getsourcefile(method)
getsourcefile(method) == method.file

\* has_been_monkeypatched looking for a file name the wrappers do not have
has_been_monkeypatched_wrong_name(method) ==
    \E i \in DOMAIN getsourcefile(method) : getsourcefile(method)[i] = "kaggle_gcp_patch.py"

\* "kaggle_gcp" in inspect.getsourcefile(method)
has_been_monkeypatched(method) ==
    \E i \in DOMAIN getsourcefile(method) : getsourcefile(method)[i] = "kaggle_gcp.py"

\* the number of kaggle_gcp wrappers between a callable and the vendor's own
RECURSIVE Layers(_)
Layers(callable) ==
    IF "bq_client" \in DOMAIN callable THEN 1 + Layers(callable.bq_client)
    ELSE IF "gcs_client_init" \in DOMAIN callable THEN 1 + Layers(callable.gcs_client_init)
    ELSE 0

-----------------------------------------------------------------------------
(* Client construction *)

\* kwargs.get(key): the keyword's value, None when it was not passed
kwargs_get(v) == IF v = Omitted THEN None ELSE v

\* what one construction call did: the exception or the client it ended with,
\* what it logged and printed, the branch each wrapper layer took, and the
\* KaggleKernelCredentials objects it created
CallResult(raised, value, out, routes, constructed) ==
    [raised |-> raised, value |-> value, out |-> out, routes |-> routes,
     constructed |-> constructed]

\* the library's constructor, consumed keyword-style
vendor_construct(class, kwargs) ==
    CallResult(None,
               [py |-> class, project |-> kwargs_get(kwargs.project),
                credentials |-> kwargs_get(kwargs.credentials),
                connection |-> [py |-> "Connection"]],
               << >>, << >>, << >>)

\* credentials.AnonymousCredentials() with refresh = lambda *args: None
AnonymousCredentials == [py |-> "AnonymousCredentials", refresh |-> "lambda: None"]

\* PublicBigqueryClient taking the environment's default project, not the
\* proxy's
PublicBigqueryClient_default_project(kwargs) ==
    IF kwargs.project # Omitted \/ kwargs.credentials # Omitted
    THEN CallResult([py |-> "TypeError", msg |-> "multiple values for keyword argument"],
                    None, << >>, << >>, << >>)
    ELSE CallResult(None,
                    [py |-> "PublicBigqueryClient",
                     project |-> os_environ.GOOGLE_CLOUD_PROJECT,
                     credentials |-> AnonymousCredentials,
                     connection |-> DataProxyConnection],
                    << >>, << >>, << >>)

\* PublicBigqueryClient(*args, **kwargs): project= and credentials= are passed
\* to super().__init__ next to **kwargs, so a kwargs holding either keyword is
\* a TypeError (multiple values for a keyword argument)
PublicBigqueryClient(kwargs) ==
    IF kwargs.project # Omitted \/ kwargs.credentials # Omitted
    THEN CallResult([py |-> "TypeError", msg |-> "multiple values for keyword argument"],
                    None, << >>, << >>, << >>)
    ELSE CallResult(None,
                    [py |-> "PublicBigqueryClient",
                     project |-> os_environ.KAGGLE_DATA_PROXY_PROJECT,
                     credentials |-> AnonymousCredentials,
                     connection |-> DataProxyConnection],
                    << >>, << >>, << >>)

\* use_public with the registry test not negated
use_public_without_not(explicit_project_id, specified_credentials, has_bq) ==
    explicit_project_id = None /\ specified_credentials = None /\ has_bq

\* use_public without the registry test
use_public_ignoring_registry(explicit_project_id, specified_credentials, has_bq) ==
    explicit_project_id = None /\ specified_credentials = None

\* the test that sends a construction to the public client
use_public(explicit_project_id, specified_credentials, has_bq) ==
    explicit_project_id = None /\ specified_credentials = None /\ ~has_bq

\* use_kernel_credentials overwriting whatever the caller passed
use_kernel_credentials_always(specified_credentials) == TRUE

\* the test that puts a KaggleKernelCredentials into kwargs
use_kernel_credentials(specified_credentials) == specified_credentials = None

RECURSIVE call_bigquery_Client(_, _)

\* monkeypatch_bq(bq_client, *args, **kwargs)
monkeypatch_bq(inner, kwargs) ==
    LET specified_credentials == kwargs_get(kwargs.credentials)
        found == get_integrations(os_environ.KAGGLE_KERNEL_INTEGRATIONS)
        has_bq == has_bigquery(found.kernel_integrations)
        arg_project == kwargs_get(kwargs.project)
        explicit_project_id == PyOr(arg_project, os_environ.GOOGLE_CLOUD_PROJECT)
        kwargs1 == IF Truthy(explicit_project_id)
                   THEN [kwargs EXCEPT !.project = explicit_project_id]
                   ELSE kwargs
        out1 == found.log \o
                (IF Truthy(explicit_project_id)
                 THEN << Event("Log.info", "Explicit project set", explicit_project_id) >>
                 ELSE << >>)
    IN  IF use_public(explicit_project_id, specified_credentials, has_bq)
        THEN LET made == PublicBigqueryClient(kwargs1)
             IN  CallResult(made.raised, made.value,
                            out1 \o << Event("Log.info", "public integration", None),
                                       Event("print", "public integration", None) >>,
                            << "public" >>, << >>)
        ELSE LET kernel == KaggleKernelCredentials("BIGQUERY")
                 inject == use_kernel_credentials(specified_credentials)
                 kwargs2 == IF inject
                            THEN [kwargs1 EXCEPT !.credentials = kernel]
                            ELSE kwargs1
                 out2 == (IF inject
                          THEN << Event("Log.info", "using KaggleKernelCredentials", None) >>
                               \o (IF ~has_bq
                                   THEN << Event("Log.info", "no bigquery integration", None),
                                           Event("print", "select account hint",
                                                 "BigQuery") >>
                                   ELSE << >>)
                          ELSE << >>)
                         \o
                         (IF explicit_project_id = None
                          THEN << Event("Log.info", "no project specified", None),
                                  Event("print", "project id hint", None) >>
                          ELSE << >>)
                 made == call_bigquery_Client(inner, kwargs2)
             IN  CallResult(made.raised, made.value, out1 \o out2 \o made.out,
                            << IF inject THEN "delegated" ELSE "explicit" >> \o made.routes,
                            (IF inject THEN << kernel >> ELSE << >>) \o made.constructed)

\* calling whatever is bound to bigquery.Client
call_bigquery_Client(callable, kwargs) ==
    IF callable.py = "class"
    THEN vendor_construct("bigquery.Client", kwargs)
    ELSE monkeypatch_bq(callable.bq_client, kwargs)

RECURSIVE call_storage_Client_init(_, _)

\* monkeypatch_gcs(self, *args, **kwargs)
monkeypatch_gcs(inner, kwargs) ==
    LET specified_credentials == kwargs_get(kwargs.credentials)
        kernel == KaggleKernelCredentials("GCS")
        inject == use_kernel_credentials(specified_credentials)
        kwargs1 == IF inject THEN [kwargs EXCEPT !.credentials = kernel] ELSE kwargs
        made == call_storage_Client_init(inner, kwargs1)
    IN  CallResult(made.raised, made.value,
                   (IF inject
                    THEN << Event("Log.info", "using KaggleKernelCredentials", None) >>
                    ELSE << >>) \o made.out,
                   << IF inject THEN "delegated" ELSE "explicit" >> \o made.routes,
                   (IF inject THEN << kernel >> ELSE << >>) \o made.constructed)

\* storage.Client(...): calling whatever is bound to storage.Client.__init__
call_storage_Client_init(callable, kwargs) ==
    IF "gcs_client_init" \in DOMAIN callable
    THEN monkeypatch_gcs(callable.gcs_client_init, kwargs)
    ELSE vendor_construct("storage.Client", kwargs)

-----------------------------------------------------------------------------
(* init_bigquery, init_gcs, init: run by one thread without interruption *)

\* the module attributes init() reads and writes
ModuleState ==
    [bigquery_Client |-> bigquery_Client,
     storage_Client_init |-> storage_Client_init,
     magics_credentials |-> magics_credentials,
     assigned |-> assigned]

\* is_proxy_token_set or is_user_secrets_token_set
bigquery_flow_active ==
    os_environ.KAGGLE_DATA_PROXY_TOKEN # None \/ os_environ.KAGGLE_USER_SECRETS_TOKEN # None

\* init_gcs without the test of get_integrations().has_gcs()
gcs_flow_active_ignoring_registry ==
    os_environ.KAGGLE_USER_SECRETS_TOKEN # None

\* is_user_secrets_token_set and get_integrations().has_gcs()
gcs_flow_active ==
    /\ os_environ.KAGGLE_USER_SECRETS_TOKEN # None
    /\ has_gcs(get_integrations(os_environ.KAGGLE_KERNEL_INTEGRATIONS).kernel_integrations)

\* magics.context.credentials after the preload at the top of init_bigquery
preload_magics(current) ==
    IF has_bigquery(get_integrations(os_environ.KAGGLE_KERNEL_INTEGRATIONS).kernel_integrations)
    THEN KaggleKernelCredentials("BIGQUERY")
    ELSE current

init_bigquery(m) ==
    IF ~bigquery_flow_active
    THEN m
    ELSE LET m1 == [m EXCEPT !.magics_credentials = preload_magics(@)]
             local_bq_client == m1.bigquery_Client
         IN  IF ~has_been_monkeypatched(m1.bigquery_Client)
             THEN [m1 EXCEPT !.bigquery_Client = bq_lambda(local_bq_client),
                             !.assigned.bq = @ + 1]
             ELSE m1

init_gcs(m) ==
    IF ~gcs_flow_active
    THEN m
    ELSE LET local_gcs_client_init == m.storage_Client_init
         IN  IF ~has_been_monkeypatched(m.storage_Client_init)
             THEN [m EXCEPT !.storage_Client_init = gcs_function(local_gcs_client_init),
                            !.assigned.gcs = @ + 1]
             ELSE m

init(m) == init_gcs(init_bigquery(m))

-----------------------------------------------------------------------------
(* Inputs *)

Threads == 1..NumThreads

ProxyToken(k) == [py |-> "str", proxy_token |-> k]

\* the environments a kernel can start with
Environments ==
    [KAGGLE_KERNEL_INTEGRATIONS : KnownIntegrationValues,
     GOOGLE_CLOUD_PROJECT       : {None, Str(""), Str("env-project")},
     KAGGLE_DATA_PROXY_TOKEN    : {None, ProxyToken(1)},
     KAGGLE_USER_SECRETS_TOKEN  : {None, Str("jwt")},
     KAGGLE_DATA_PROXY_PROJECT  : {Str("kaggle-proxy-project")}]

\* an environment with none of the optional variables set
BareEnvironment ==
    [KAGGLE_KERNEL_INTEGRATIONS |-> None,
     GOOGLE_CLOUD_PROJECT       |-> None,
     KAGGLE_DATA_PROXY_TOKEN    |-> None,
     KAGGLE_USER_SECRETS_TOKEN  |-> None,
     KAGGLE_DATA_PROXY_PROJECT  |-> Str("kaggle-proxy-project")]

\* the project keyword of a construction call
ProjectArgs == {Omitted, None, Str(""), Str("my-project")}

\* a credentials object of the caller's own
UserCredentials(n) == [py |-> "Credentials", id |-> n]

\* the credentials keyword of a construction call
CredentialArgs == {Omitted, None} \cup { UserCredentials(n) : n \in 1..NumObjects }

-----------------------------------------------------------------------------
(* Initial states *)

\* the module's objects as they are before init() first runs
Loaded ==
    /\ bigquery_Client = vendor_bigquery_Client
    /\ storage_Client_init = vendor_storage_Client_init
    /\ magics_credentials = None
    /\ pc = [t \in Threads |-> "idle"]
    /\ bq_client = [t \in Threads |-> None]
    /\ gcs_client_init = [t \in Threads |-> None]
    /\ assigned = [bq |-> 0, gcs |-> 0]
    /\ inits = 0
    /\ creds = None
    /\ connection = None
    /\ last = [op |-> "import"]

Init == os_environ \in Environments /\ Loaded

InitBare == os_environ = BareEnvironment /\ Loaded

-----------------------------------------------------------------------------
(* The environment changing under the program *)

putenv_integrations ==
    /\ \E v \in IntegrationValues :
           os_environ' = [os_environ EXCEPT !.KAGGLE_KERNEL_INTEGRATIONS = v]
    /\ last' = [op |-> "putenv"]
    /\ UNCHANGED <<bigquery_Client, storage_Client_init, magics_credentials, pc,
                   bq_client, gcs_client_init, assigned, inits, creds, connection>>

putenv_known_integrations ==
    /\ \E v \in KnownIntegrationValues :
           os_environ' = [os_environ EXCEPT !.KAGGLE_KERNEL_INTEGRATIONS = v]
    /\ last' = [op |-> "putenv"]
    /\ UNCHANGED <<bigquery_Client, storage_Client_init, magics_credentials, pc,
                   bq_client, gcs_client_init, assigned, inits, creds, connection>>

putenv_proxy_token ==
    /\ \E v \in {None} \cup { ProxyToken(k) : k \in 1..NumObjects } :
           os_environ' = [os_environ EXCEPT !.KAGGLE_DATA_PROXY_TOKEN = v]
    /\ last' = [op |-> "putenv"]
    /\ UNCHANGED <<bigquery_Client, storage_Client_init, magics_credentials, pc,
                   bq_client, gcs_client_init, assigned, inits, creds, connection>>

-----------------------------------------------------------------------------
(* Calls *)

\* get_integrations()
call_get_integrations ==
    /\ last' = [op |-> "get_integrations",
                var |-> os_environ.KAGGLE_KERNEL_INTEGRATIONS,
                found |-> get_integrations(os_environ.KAGGLE_KERNEL_INTEGRATIONS)]
    /\ UNCHANGED <<os_environ, bigquery_Client, storage_Client_init, magics_credentials,
                   pc, bq_client, gcs_client_init, assigned, inits, creds, connection>>

\* KernelIntegrations()
new_KernelIntegrations ==
    /\ last' = [op |-> "KernelIntegrations", self |-> KernelIntegrations]
    /\ UNCHANGED <<os_environ, bigquery_Client, storage_Client_init, magics_credentials,
                   pc, bq_client, gcs_client_init, assigned, inits, creds, connection>>

\* self.add_integration(target), on the registry the last call made or changed
call_add_integration ==
    /\ last.op \in {"KernelIntegrations", "add_integration", "get_integrations"}
    /\ \E target \in GcpTarget :
           LET self == IF last.op = "get_integrations"
                       THEN last.found.kernel_integrations
                       ELSE last.self
           IN  last' = [op |-> "add_integration", target |-> target,
                        before |-> self, self |-> add_integration(self, target)]
    /\ UNCHANGED <<os_environ, bigquery_Client, storage_Client_init, magics_credentials,
                   pc, bq_client, gcs_client_init, assigned, inits, creds, connection>>

\* KaggleKernelCredentials(target)
new_KaggleKernelCredentials ==
    /\ \E target \in GcpTarget : creds' = KaggleKernelCredentials(target)
    /\ last' = [op |-> "KaggleKernelCredentials"]
    /\ UNCHANGED <<os_environ, bigquery_Client, storage_Client_init, magics_credentials,
                   pc, bq_client, gcs_client_init, assigned, inits, connection>>

\* creds.refresh(request)
call_refresh ==
    /\ creds # None
    /\ \E vault \in VaultOutcomes :
           LET r == refresh(creds, vault)
           IN  /\ creds' = r.self
               /\ last' = [op |-> "refresh", before |-> creds, vault |-> vault,
                           var |-> os_environ.KAGGLE_KERNEL_INTEGRATIONS,
                           raised |-> r.raised, out |-> r.out, fetched |-> r.fetched]
    /\ UNCHANGED <<os_environ, bigquery_Client, storage_Client_init, magics_credentials,
                   pc, bq_client, gcs_client_init, assigned, inits, connection>>

\* _DataProxyConnection(client)
new_DataProxyConnection ==
    /\ connection' = DataProxyConnection
    /\ last' = [op |-> "_DataProxyConnection"]
    /\ UNCHANGED <<os_environ, bigquery_Client, storage_Client_init, magics_credentials,
                   pc, bq_client, gcs_client_init, assigned, inits, creds>>

\* connection.api_request(...)
call_api_request ==
    /\ connection # None
    /\ \E request \in Requests, transport \in TransportOutcomes :
           LET r == api_request(connection, request, transport)
           IN  last' = [op |-> "api_request", transport |-> transport,
                        raised |-> r.raised, value |-> r.value, out |-> r.out,
                        sent |-> r.sent]
    /\ UNCHANGED <<os_environ, bigquery_Client, storage_Client_init, magics_credentials,
                   pc, bq_client, gcs_client_init, assigned, inits, creds, connection>>

\* init(), run from start to end by one thread
call_init ==
    /\ inits < MaxInits
    /\ Layers(bigquery_Client) < MaxLayers
    /\ Layers(storage_Client_init) < MaxLayers
    /\ \A t \in Threads : pc[t] = "idle"
    /\ LET m == init(ModuleState)
       IN  /\ bigquery_Client' = m.bigquery_Client
           /\ storage_Client_init' = m.storage_Client_init
           /\ magics_credentials' = m.magics_credentials
           /\ assigned' = m.assigned
    /\ inits' = inits + 1
    /\ last' = [op |-> "init"]
    /\ UNCHANGED <<os_environ, pc, bq_client, gcs_client_init, creds, connection>>

\* bigquery.Client(project=..., credentials=...)
construct_bigquery_Client ==
    /\ \E project \in ProjectArgs, credentials \in CredentialArgs :
           LET kwargs == [project |-> project, credentials |-> credentials]
               r == call_bigquery_Client(bigquery_Client, kwargs)
           IN  last' = [op |-> "bigquery.Client", kwargs |-> kwargs,
                        callable |-> bigquery_Client, environ |-> os_environ,
                        raised |-> r.raised, value |-> r.value, out |-> r.out,
                        routes |-> r.routes, constructed |-> r.constructed]
    /\ UNCHANGED <<os_environ, bigquery_Client, storage_Client_init, magics_credentials,
                   pc, bq_client, gcs_client_init, assigned, inits, creds, connection>>

\* storage.Client(project=..., credentials=...)
construct_storage_Client ==
    /\ \E project \in ProjectArgs, credentials \in CredentialArgs :
           LET kwargs == [project |-> project, credentials |-> credentials]
               r == call_storage_Client_init(storage_Client_init, kwargs)
           IN  last' = [op |-> "storage.Client", kwargs |-> kwargs,
                        callable |-> storage_Client_init, environ |-> os_environ,
                        raised |-> r.raised, value |-> r.value, out |-> r.out,
                        routes |-> r.routes, constructed |-> r.constructed]
    /\ UNCHANGED <<os_environ, bigquery_Client, storage_Client_init, magics_credentials,
                   pc, bq_client, gcs_client_init, assigned, inits, creds, connection>>

-----------------------------------------------------------------------------
(* init() run by several threads, one attribute read or write at a time *)

Goto(t, label) == pc' = [pc EXCEPT ![t] = label]

\* init_bigquery up to the preload of the magics credentials
thread_enter_init_bigquery(t) ==
    /\ pc[t] = "idle"
    /\ inits + Cardinality({u \in Threads : pc[u] # "idle"}) < MaxInits
    /\ Layers(bigquery_Client) < MaxLayers
    /\ Layers(storage_Client_init) < MaxLayers
    /\ IF bigquery_flow_active
       THEN /\ magics_credentials' = preload_magics(magics_credentials)
            /\ Goto(t, "bq_read")
       ELSE /\ Goto(t, "enter_init_gcs")
            /\ UNCHANGED magics_credentials
    /\ last' = [op |-> "thread"]
    /\ UNCHANGED <<os_environ, bigquery_Client, storage_Client_init, bq_client,
                   gcs_client_init, assigned, inits, creds, connection>>

\* bq_client = bigquery.Client
thread_bq_read(t) ==
    /\ pc[t] = "bq_read"
    /\ bq_client' = [bq_client EXCEPT ![t] = bigquery_Client]
    /\ Goto(t, "bq_check")
    /\ last' = [op |-> "thread"]
    /\ UNCHANGED <<os_environ, bigquery_Client, storage_Client_init, magics_credentials,
                   gcs_client_init, assigned, inits, creds, connection>>

\* if (not has_been_monkeypatched(bigquery.Client))
thread_bq_check(t) ==
    /\ pc[t] = "bq_check"
    /\ IF ~has_been_monkeypatched(bigquery_Client)
       THEN Goto(t, "bq_assign")
       ELSE Goto(t, "enter_init_gcs")
    /\ last' = [op |-> "thread"]
    /\ UNCHANGED <<os_environ, bigquery_Client, storage_Client_init, magics_credentials,
                   bq_client, gcs_client_init, assigned, inits, creds, connection>>

\* thread_bq_lambda closing over bigquery.Client as it is when the lambda is
\* installed, instead of the bq_client read before the check
thread_bq_lambda_late_read(t) == bq_lambda(bigquery_Client)

\* the lambda a thread installs: it calls the bq_client the thread read
thread_bq_lambda(t) == bq_lambda(bq_client[t])

\* the function a thread installs: it calls the gcs_client_init the thread read
thread_gcs_function(t) == gcs_function(gcs_client_init[t])

\* bigquery.Client = lambda ...
thread_bq_assign(t) ==
    /\ pc[t] = "bq_assign"
    /\ bigquery_Client' = thread_bq_lambda(t)
    /\ assigned' = [assigned EXCEPT !.bq = @ + 1]
    /\ Goto(t, "enter_init_gcs")
    /\ last' = [op |-> "thread"]
    /\ UNCHANGED <<os_environ, storage_Client_init, magics_credentials, bq_client,
                   gcs_client_init, inits, creds, connection>>

\* init_gcs up to the two early returns
thread_enter_init_gcs(t) ==
    /\ pc[t] = "enter_init_gcs"
    /\ IF gcs_flow_active
       THEN Goto(t, "gcs_read") /\ UNCHANGED inits
       ELSE Goto(t, "idle") /\ inits' = inits + 1
    /\ last' = [op |-> "thread"]
    /\ UNCHANGED <<os_environ, bigquery_Client, storage_Client_init, magics_credentials,
                   bq_client, gcs_client_init, assigned, creds, connection>>

\* gcs_client_init = storage.Client.__init__
thread_gcs_read(t) ==
    /\ pc[t] = "gcs_read"
    /\ gcs_client_init' = [gcs_client_init EXCEPT ![t] = storage_Client_init]
    /\ Goto(t, "gcs_check")
    /\ last' = [op |-> "thread"]
    /\ UNCHANGED <<os_environ, bigquery_Client, storage_Client_init, magics_credentials,
                   bq_client, assigned, inits, creds, connection>>

\* if (not has_been_monkeypatched(storage.Client.__init__))
thread_gcs_check(t) ==
    /\ pc[t] = "gcs_check"
    /\ IF ~has_been_monkeypatched(storage_Client_init)
       THEN Goto(t, "gcs_assign") /\ UNCHANGED inits
       ELSE Goto(t, "idle") /\ inits' = inits + 1
    /\ last' = [op |-> "thread"]
    /\ UNCHANGED <<os_environ, bigquery_Client, storage_Client_init, magics_credentials,
                   bq_client, gcs_client_init, assigned, creds, connection>>

\* storage.Client.__init__ = monkeypatch_gcs
thread_gcs_assign(t) ==
    /\ pc[t] = "gcs_assign"
    /\ storage_Client_init' = thread_gcs_function(t)
    /\ assigned' = [assigned EXCEPT !.gcs = @ + 1]
    /\ Goto(t, "idle")
    /\ inits' = inits + 1
    /\ last' = [op |-> "thread"]
    /\ UNCHANGED <<os_environ, bigquery_Client, magics_credentials, bq_client,
                   gcs_client_init, creds, connection>>

-----------------------------------------------------------------------------
(* Specifications *)

\* the client wrappers and init(), one call at a time
Next ==
    \/ putenv_known_integrations
    \/ call_init
    \/ construct_bigquery_Client
    \/ construct_storage_Client

Spec == Init /\ [][Next]_vars

\* the integration registry
NextRegistry ==
    \/ putenv_integrations
    \/ call_get_integrations

SpecRegistry == InitBare /\ [][NextRegistry]_vars

\* registries built by hand and by get_integrations
NextIntegrations ==
    \/ putenv_known_integrations
    \/ call_get_integrations
    \/ new_KernelIntegrations
    \/ call_add_integration

SpecIntegrations == InitBare /\ [][NextIntegrations]_vars

\* a KaggleKernelCredentials and the token vault
NextRefresh ==
    \/ putenv_known_integrations
    \/ new_KaggleKernelCredentials
    \/ call_refresh

SpecRefresh == InitBare /\ [][NextRefresh]_vars

\* a _DataProxyConnection and the transport under it
NextProxy ==
    \/ putenv_proxy_token
    \/ new_DataProxyConnection
    \/ call_api_request

SpecProxy == InitBare /\ [][NextProxy]_vars

\* init() from several threads
NextThreads ==
    \E t \in Threads :
        \/ thread_enter_init_bigquery(t)
        \/ thread_bq_read(t)
        \/ thread_bq_check(t)
        \/ thread_bq_assign(t)
        \/ thread_enter_init_gcs(t)
        \/ thread_gcs_read(t)
        \/ thread_gcs_check(t)
        \/ thread_gcs_assign(t)

SpecThreads == Init /\ [][NextThreads]_vars

-----------------------------------------------------------------------------
(* A kernel after `import kaggle_gcp`: init() has run once, at module level *)

\* KAGGLE_KERNEL_INTEGRATIONS of the kernel at import: "bigquery:gcs"
StartIntegrations == Chars(LowerName("BIGQUERY") \o <<Colon>> \o LowerName("GCS"))

\* the environments of a kernel with both tokens and both integrations
StartEnvironments ==
    [KAGGLE_KERNEL_INTEGRATIONS : {StartIntegrations},
     GOOGLE_CLOUD_PROJECT       : {None},
     KAGGLE_DATA_PROXY_TOKEN    : {ProxyToken(1)},
     KAGGLE_USER_SECRETS_TOKEN  : {Str("jwt")},
     KAGGLE_DATA_PROXY_PROJECT  : {Str("kaggle-proxy-project"), Str("other-proxy-project")}]

\* the module's attributes before the init() at the end of the module
LoadedModule ==
    [bigquery_Client |-> vendor_bigquery_Client,
     storage_Client_init |-> vendor_storage_Client_init,
     magics_credentials |-> None,
     assigned |-> [bq |-> 0, gcs |-> 0]]

\* the state once the module is imported: its last line, init(), has run
InitImported ==
    /\ os_environ \in StartEnvironments
    /\ bigquery_Client = init(LoadedModule).bigquery_Client
    /\ storage_Client_init = init(LoadedModule).storage_Client_init
    /\ magics_credentials = init(LoadedModule).magics_credentials
    /\ assigned = init(LoadedModule).assigned
    /\ inits = 1
    /\ pc = [t \in Threads |-> "idle"]
    /\ bq_client = [t \in Threads |-> None]
    /\ gcs_client_init = [t \in Threads |-> None]
    /\ creds = None
    /\ connection = None
    /\ last = [op |-> "init"]

\* creds.refresh = lambda *args: None, called on the anonymous credentials
anonymous_refresh(self) ==
    [self |-> self, out |-> << >>, raised |-> None, fetched |-> << >>]

\* the library takes the credentials of the client just constructed, to
\* refresh them before the client's first request
client_credentials ==
    /\ last.op \in {"bigquery.Client", "storage.Client"}
    /\ last.raised = None
    /\ last.value.credentials.py = "KaggleKernelCredentials"
    /\ creds' = last.value.credentials
    /\ last' = [op |-> "client._credentials"]
    /\ UNCHANGED <<os_environ, bigquery_Client, storage_Client_init, magics_credentials,
                   pc, bq_client, gcs_client_init, assigned, inits, connection>>

\* the library refreshes the credentials of the PublicBigqueryClient just
\* constructed
call_anonymous_refresh ==
    /\ last.op = "bigquery.Client"
    /\ last.raised = None
    /\ last.value.credentials.py = "AnonymousCredentials"
    /\ LET r == anonymous_refresh(last.value.credentials)
       IN  last' = [op |-> "credentials.refresh", client |-> last.value,
                    after |-> r.self, raised |-> r.raised, out |-> r.out,
                    fetched |-> r.fetched]
    /\ UNCHANGED <<os_environ, bigquery_Client, storage_Client_init, magics_credentials,
                   pc, bq_client, gcs_client_init, assigned, inits, creds, connection>>

\* the PublicBigqueryClient just constructed sends a request: the library
\* calls client._connection.api_request(...)
call_client_api_request ==
    /\ last.op = "bigquery.Client"
    /\ last.raised = None
    /\ last.value.py = "PublicBigqueryClient"
    /\ \E request \in Requests, transport \in TransportOutcomes :
           LET r == api_request(last.value.connection, request, transport)
           IN  last' = [op |-> "client.api_request", client |-> last.value,
                        transport |-> transport, raised |-> r.raised,
                        value |-> r.value, out |-> r.out, sent |-> r.sent]
    /\ UNCHANGED <<os_environ, bigquery_Client, storage_Client_init, magics_credentials,
                   pc, bq_client, gcs_client_init, assigned, inits, creds, connection>>

\* an imported kernel: clients are constructed and used while the
\* integrations list changes
NextKernel ==
    \/ putenv_known_integrations
    \/ construct_bigquery_Client
    \/ construct_storage_Client
    \/ client_credentials
    \/ call_refresh
    \/ call_anonymous_refresh
    \/ call_client_api_request

SpecKernel == InitImported /\ [][NextKernel]_vars

-----------------------------------------------------------------------------
(* What the claims speak of, stated without the program's own parsing *)

\* two characters that are the same letter in either case, or equal
SameLetter(x, y) ==
    \/ x = y
    \/ x \in 65..90 /\ y = x + 32
    \/ x \in 97..122 /\ y = x - 32

EqIgnoreCase(a, b) ==
    /\ Len(a) = Len(b)
    /\ \A k \in 1..Len(a) : SameLetter(a[k], b[k])

\* cs[i..j] is one colon-delimited field of cs (j = i - 1: an empty field)
IsField(cs, i, j) ==
    /\ i \in 1..(Len(cs) + 1)
    /\ j \in (i - 1)..Len(cs)
    /\ i = 1 \/ cs[i - 1] = Colon
    /\ j = Len(cs) \/ cs[j + 1] = Colon
    /\ \A k \in i..j : cs[k] # Colon

Fields(cs) ==
    { f \in (1..(Len(cs) + 1)) \X (0..Len(cs)) : IsField(cs, f[1], f[2]) }

IsTargetName(cs) == \E t \in GcpTarget : EqIgnoreCase(cs, TargetName(t))

\* the targets a value of KAGGLE_KERNEL_INTEGRATIONS names
NamedTargets(var) ==
    IF var = None
    THEN {}
    ELSE { t \in GcpTarget :
             \E f \in Fields(var.chars) :
                 EqIgnoreCase(SubSeq(var.chars, f[1], f[2]), TargetName(t)) }

\* the fields of the value that name no target
UnknownFields(var) ==
    IF var = None
    THEN {}
    ELSE { f \in Fields(var.chars) : ~IsTargetName(SubSeq(var.chars, f[1], f[2])) }

\* the last call was a construction through a patched bigquery.Client
PatchedBigqueryCall == last.op = "bigquery.Client" /\ Layers(last.callable) >= 1

\* the last call was a construction through a patched storage.Client.__init__
PatchedStorageCall == last.op = "storage.Client" /\ Layers(last.callable) >= 1

\* the caller of the last construction gave no project / no credentials
NoProjectArgument == last.kwargs.project \in {Omitted, None}

NoCredentialsArgument == last.kwargs.credentials \in {Omitted, None}

\* the registry as it was when the last construction was made
RegistryAtCall == NamedTargets(last.environ.KAGGLE_KERNEL_INTEGRATIONS)

-----------------------------------------------------------------------------
(* C1 *)

\* C1: a construction through the patched BigQuery constructor with no project
\* argument, no environment default project, no credentials and a registry
\* without BIGQUERY takes the public branch and creates no
\* KaggleKernelCredentials; with both keywords left out the result is a
\* PublicBigqueryClient.
C1_PublicWhenNothingGiven ==
    ( /\ PatchedBigqueryCall
      /\ NoProjectArgument
      /\ last.environ.GOOGLE_CLOUD_PROJECT = None
      /\ NoCredentialsArgument
      /\ "BIGQUERY" \notin RegistryAtCall )
    => /\ last.routes = << "public" >>
       /\ last.constructed = << >>
       /\ (last.kwargs.project = Omitted /\ last.kwargs.credentials = Omitted)
              => (last.raised = None /\ last.value.py = "PublicBigqueryClient")

C1_Witness ==
    /\ PatchedBigqueryCall
    /\ last.kwargs = [project |-> Omitted, credentials |-> Omitted]
    /\ last.environ.GOOGLE_CLOUD_PROJECT = None
    /\ RegistryAtCall = {"GCS"}
    /\ last.raised = None
    /\ last.value.py = "PublicBigqueryClient"

(* C2 *)

\* C2: a construction through the patched BigQuery constructor with no project
\* and no credentials, made while the registry contains BIGQUERY, never takes
\* the public branch: the library's client is built with a
\* KaggleKernelCredentials bound to BIGQUERY.
C2_NeverPublicWithIntegration ==
    ( /\ PatchedBigqueryCall
      /\ NoProjectArgument
      /\ NoCredentialsArgument
      /\ "BIGQUERY" \in RegistryAtCall )
    => /\ \A i \in DOMAIN last.routes : last.routes[i] # "public"
       /\ last.raised = None
       /\ last.value.py = "bigquery.Client"
       /\ last.value.credentials = KaggleKernelCredentials("BIGQUERY")
       /\ last.constructed = << KaggleKernelCredentials("BIGQUERY") >>

C2_Witness ==
    /\ PatchedBigqueryCall
    /\ NoProjectArgument
    /\ last.environ.GOOGLE_CLOUD_PROJECT = None
    /\ NoCredentialsArgument
    /\ "BIGQUERY" \in RegistryAtCall
    /\ last.value.py = "bigquery.Client"
    /\ last.value.credentials.py = "KaggleKernelCredentials"

(* C3 *)

\* C3: when the caller passes a credentials object to a patched constructor
\* (BigQuery or GCS), whatever the registry and the project, no
\* KaggleKernelCredentials is created, the public branch is not taken and the
\* library's client receives that very object.
C3_ExplicitCredentialsUnchanged ==
    ( /\ PatchedBigqueryCall \/ PatchedStorageCall
      /\ ~NoCredentialsArgument )
    => /\ last.constructed = << >>
       /\ \A i \in DOMAIN last.routes : last.routes[i] # "public"
       /\ last.raised = None
       /\ last.value.py = last.op
       /\ last.value.credentials = last.kwargs.credentials

C3_Witness ==
    /\ PatchedBigqueryCall
    /\ last.kwargs.project = Omitted
    /\ last.environ.GOOGLE_CLOUD_PROJECT = None
    /\ RegistryAtCall = {}
    /\ last.kwargs.credentials = UserCredentials(1)
    /\ last.value.credentials = UserCredentials(1)

(* C4 *)

\* C4: a call of the patched BigQuery constructor returns a client for every
\* combination of the project keyword (left out, None, a value), the
\* credentials keyword (left out, None, a value), the environment default
\* project and the registry: it never raises.
C4_ConstructionNeverRaises ==
    PatchedBigqueryCall => last.raised = None

(* C5 *)

\* C5: whatever refresh calls were made and however the vault answered them,
\* the credential's token and expiry are both unset or both set, and when set
\* they are the token and the expiry one vault call returned together.
C5_TokenAndExpiryTogether ==
    /\ creds # None =>
        \/ creds.token = None /\ creds.expiry = None
        \/ \E k \in 1..NumTokens : creds.token = Token(k) /\ creds.expiry = Expiry(k)
    /\ (last.op = "refresh" /\ last.raised = None) =>
           << creds.token, creds.expiry >> = last.vault.value

\* a refresh that failed on a credential holding the pair of an earlier
\* call, itself refreshed more than once
C5_Witness ==
    /\ last.op = "refresh"
    /\ last.raised # None
    /\ last.before.token = Token(2)
    /\ creds.token = Token(2)
    /\ creds.expiry = Expiry(2)

(* C6 *)

\* C6: after any number of init calls made one after the other, bigquery.Client
\* and storage.Client.__init__ each carry at most one wrapper, assigned once,
\* and a construction through a patched constructor runs the wrapper's logic
\* once and then the library's own constructor.
C6_OneWrapperLayer ==
    /\ Layers(bigquery_Client) = assigned.bq
    /\ Layers(storage_Client_init) = assigned.gcs
    /\ assigned.bq <= 1
    /\ assigned.gcs <= 1
    /\ (PatchedBigqueryCall \/ PatchedStorageCall) =>
           /\ Len(last.routes) = 1
           /\ last.routes[1] # "public" => (last.raised = None /\ last.value.py = last.op)

C6_Witness ==
    /\ inits >= 2
    /\ Layers(bigquery_Client) = 1
    /\ Layers(storage_Client_init) = 1
    /\ PatchedBigqueryCall
    /\ last.routes = << "delegated" >>
    /\ last.value.py = "bigquery.Client"

(* C7 *)

\* C7 as claimed: with init run by several threads, the guard's check and
\* act are atomic, so each constructor is assigned a wrapper at most once and
\* never holds a wrapper of a wrapper.
C7_PatchAppliedAtMostOnce ==
    /\ assigned.bq <= 1
    /\ assigned.gcs <= 1
    /\ Layers(bigquery_Client) <= 1
    /\ Layers(storage_Client_init) <= 1

\* C7 as amended: with init run by several threads, a constructor may be
\* assigned a wrapper once per racing thread, but every wrapper installed, or
\* about to be, wraps the library's own constructor, never another wrapper.
C7_NeverWrapsAWrapper ==
    /\ Layers(bigquery_Client) <= 1
    /\ Layers(storage_Client_init) <= 1
    /\ \A t \in Threads :
           /\ pc[t] = "bq_assign" => Layers(thread_bq_lambda(t)) = 1
           /\ pc[t] = "gcs_assign" => Layers(thread_gcs_function(t)) = 1

\* two threads have both passed the check and both assigned
C7_Witness ==
    /\ assigned.bq = 2
    /\ assigned.gcs = 2
    /\ Layers(bigquery_Client) = 1
    /\ Layers(storage_Client_init) = 1

(* C8 *)

\* C8: for every value of KAGGLE_KERNEL_INTEGRATIONS (unset, empty, names in
\* any letter case, unknown names, duplicates) get_integrations returns
\* without raising, the registry holds exactly the targets the value names
\* ignoring case, and each field naming no target is logged as one error and
\* dropped; an unset variable gives the empty registry and logs nothing.
C8_RegistryIsNamedTargets ==
    last.op = "get_integrations" =>
        /\ last.found.raised = None
        /\ DOMAIN last.found.kernel_integrations.integrations = NamedTargets(last.var)
        /\ \A t \in GcpTarget :
               has_integration(last.found.kernel_integrations, t) <=> t \in NamedTargets(last.var)
        /\ Len(last.found.log) = Cardinality(UnknownFields(last.var))
        /\ \A i \in DOMAIN last.found.log :
               /\ last.found.log[i].chan = "Log.error"
               /\ ~IsTargetName(last.found.log[i].arg)
               /\ \E f \in UnknownFields(last.var) :
                      EqIgnoreCase(SubSeq(last.var.chars, f[1], f[2]), last.found.log[i].arg)

\* "bigquery:bq:GCS": a lower-case name, an unknown name, an upper-case name
C8_Witness ==
    /\ last.op = "get_integrations"
    /\ last.var = Chars(<<98, 105, 103, 113, 117, 101, 114, 121, 58, 98, 113, 58, 71, 67, 83>>)
    /\ DOMAIN last.found.kernel_integrations.integrations = {"BIGQUERY", "GCS"}
    /\ Len(last.found.log) = 1

(* C9 *)

\* the events of the last call that are equal to e
Count(out, e) == Cardinality({ i \in DOMAIN out : out[i] = e })

\* C9: when the vault raises a connection error during refresh, refresh raises
\* RefreshError with that error as its cause, prints the connectivity hint
\* naming the target's display name exactly once and nothing else, and so
\* does not print the select-an-account hint, for every target and registry.
C9_ConnectionErrorHint ==
    (last.op = "refresh" /\ IsConnectionError(last.vault.raised)) =>
        /\ last.raised.py = "RefreshError"
        /\ last.raised.cause = last.vault.raised
        /\ Count(last.out, Event("print", "connection hint", Service(last.before.target))) = 1
        /\ \A i \in DOMAIN last.out :
               last.out[i].chan = "print" => last.out[i].msg = "connection hint"

\* a connection error while the registry lacks the credential's target
C9_Witness ==
    /\ last.op = "refresh"
    /\ last.vault.raised.py = "ConnectionResetError"
    /\ last.before.target = "GCS"
    /\ NamedTargets(last.var) = {"BIGQUERY"}
    /\ last.raised.py = "RefreshError"

(* C10 *)

\* C10: when the transport raises Forbidden, api_request prints and logs the
\* account-selection hint and raises that same error, returning nothing; any
\* other outcome of the transport, a response or another error, is passed on
\* unchanged with no hint.
C10_ForbiddenReraised ==
    last.op = "api_request" =>
        IF last.transport.raised.py = "Forbidden"
        THEN /\ last.raised = last.transport.raised
             /\ last.value = None
             /\ Count(last.out, Event("print", "public integration permission hint", None)) = 1
             /\ Count(last.out, Event("Log.info", "public integration permission hint", None)) = 1
        ELSE /\ last.raised = last.transport.raised
             /\ last.value = last.transport.value
             /\ last.out = << >>

C10_Witness ==
    /\ last.op = "api_request"
    /\ last.transport.raised = [py |-> "Forbidden", id |-> 2]
    /\ last.raised = [py |-> "Forbidden", id |-> 2]
    /\ Len(last.out) = 2

(* C11 *)

\* C11: every request sent through a _DataProxyConnection carries the
\* X-KAGGLE-PROXY-DATA header; its value is the proxy token the environment
\* held when the connection was constructed, and no later step, a change of
\* the environment's token included, changes the connection or what it sends.
C11_HeaderFixedAtConstruction ==
    [][ /\ last'.op = "_DataProxyConnection" =>
               connection'.extra_headers.X_KAGGLE_PROXY_DATA
                   = os_environ.KAGGLE_DATA_PROXY_TOKEN
        /\ last'.op # "_DataProxyConnection" => connection' = connection
        /\ last'.op = "api_request" =>
               /\ "X_KAGGLE_PROXY_DATA" \in DOMAIN last'.sent.headers
               /\ last'.sent.headers.X_KAGGLE_PROXY_DATA
                      = connection.extra_headers.X_KAGGLE_PROXY_DATA ]_vars

\* a request sent with the first token after the environment moved to the second
C11_Witness ==
    /\ last.op = "api_request"
    /\ last.sent.headers.X_KAGGLE_PROXY_DATA = ProxyToken(1)
    /\ connection.extra_headers.X_KAGGLE_PROXY_DATA = ProxyToken(1)
    /\ os_environ.KAGGLE_DATA_PROXY_TOKEN = ProxyToken(2)

(* C12 *)

\* the routing decision of the last patched bigquery.Client call, made with
\* no credentials argument, is the one a registry holding `registry` gives
DecidedWith(registry) ==
    LET unresolved == /\ last.kwargs.project \in {Omitted, None, Str("")}
                      /\ last.environ.GOOGLE_CLOUD_PROJECT = None
        hints == Count(last.out, Event("print", "select account hint", "BigQuery"))
    IN  (PatchedBigqueryCall /\ NoCredentialsArgument) =>
            /\ (last.routes = << "public" >>) <=> (unresolved /\ "BIGQUERY" \notin registry)
            /\ (hints = 1) <=> (~unresolved /\ "BIGQUERY" \notin registry)
            /\ hints <= 1

\* the diagnostic of the last refresh, failed with no connection error, is
\* the one a registry holding `registry` gives
DiagnosedWith(registry) ==
    LET hints == Count(last.out, Event("print", "select account hint",
                                       Service(last.before.target)))
    IN  ( /\ last.op = "refresh"
          /\ last.vault.raised # None
          /\ ~IsConnectionError(last.vault.raised) ) =>
            /\ (hints = 1) <=> (last.before.target \notin registry)
            /\ hints <= 1

RegistryInHand ==
    IF last.op = "get_integrations" THEN last.found.kernel_integrations ELSE last.self

\* C13: on every registry reached by KernelIntegrations() followed by any
\* sequence of add_integration calls, and on every registry get_integrations
\* builds, has_bigquery, has_gcs and has_automl answer what has_integration
\* answers for BIGQUERY, GCS and AUTOML.
C13_ConveniencePredicates ==
    last.op \in {"KernelIntegrations", "add_integration", "get_integrations"} =>
        /\ has_bigquery(RegistryInHand) <=> has_integration(RegistryInHand, "BIGQUERY")
        /\ has_gcs(RegistryInHand) <=> has_integration(RegistryInHand, "GCS")
        /\ has_automl(RegistryInHand) <=> has_integration(RegistryInHand, "AUTOML")

\* a registry with AUTOML added and GCS not: the predicates differ on it
C13_Witness ==
    /\ last.op = "add_integration"
    /\ last.before # KernelIntegrations
    /\ has_automl(last.self)
    /\ has_bigquery(last.self)
    /\ ~has_integration(last.self, "GCS")

(* C14 *)

\* C14: when the vault fails during refresh with anything but a connection
\* error, refresh raises RefreshError with that failure as its cause, and it
\* prints the select-an-account hint, once and naming the target's service,
\* exactly when the integrations list at the moment of the call does not name
\* the credential's target.
C14_OtherFailureHint ==
    ( /\ last.op = "refresh"
      /\ last.vault.raised # None
      /\ last.vault.raised.py \notin {"ConnectionError", "ConnectionResetError"} ) =>
        LET hints == { i \in DOMAIN last.out :
                         last.out[i].chan = "print" /\ last.out[i].msg = "select account hint" }
        IN  /\ last.raised.py = "RefreshError"
            /\ last.raised.cause = last.vault.raised
            /\ (hints # {}) <=> (last.before.target \notin NamedTargets(last.var))
            /\ Cardinality(hints) <= 1
            /\ \A i \in hints : last.out[i].arg = Service(last.before.target)

\* a backend error on an AUTOML credential while the list names automl next
\* to an unknown entry: RefreshError and no hint
C14_Witness ==
    /\ last.op = "refresh"
    /\ last.vault.raised.py = "BackendError"
    /\ last.before.target = "AUTOML"
    /\ NamedTargets(last.var) = {"AUTOML"}
    /\ UnknownFields(last.var) # {}
    /\ last.raised.py = "RefreshError"
    /\ \A i \in DOMAIN last.out : last.out[i].chan # "print"

(* C15 *)

\* C15: on the delegated and pass-through paths of the patched BigQuery
\* constructor the effective project is the project argument when one is
\* given, else the environment's default project when one is set, else none
\* (an empty string counting as not given); when there is an effective project
\* the library's client is constructed with exactly it, and when the client is
\* constructed with no project the project-id-required hint was printed.
C15_EffectiveProject ==
    ( /\ PatchedBigqueryCall
      /\ last.routes # << "public" >>
      /\ last.raised = None ) =>
        LET arg == last.kwargs.project
            env == last.environ.GOOGLE_CLOUD_PROJECT
            effective == IF arg \notin {Omitted, None, Str("")} THEN arg
                         ELSE IF env \notin {None, Str("")} THEN env
                         ELSE None
        IN  /\ effective # None => last.value.project = effective
            /\ last.value.project \in {None, Str("")} =>
                   Count(last.out, Event("print", "project id hint", None)) >= 1

(* C16 *)

\* C16: every KaggleKernelCredentials a patched bigquery.Client call creates
\* is bound to BIGQUERY and every one a patched storage.Client call creates is
\* bound to GCS, the client's credentials included; and each refresh of a
\* credential calls the vault's access-token method of the credential's own
\* target exactly once and no other method, also when that call fails.
C16_BoundToClientTarget ==
    /\ last.op = "bigquery.Client" =>
           /\ \A i \in DOMAIN last.constructed : last.constructed[i].target = "BIGQUERY"
           /\ (last.raised = None /\ last.value.credentials.py = "KaggleKernelCredentials")
                  => last.value.credentials.target = "BIGQUERY"
    /\ last.op = "storage.Client" =>
           /\ \A i \in DOMAIN last.constructed : last.constructed[i].target = "GCS"
           /\ (last.raised = None /\ last.value.credentials.py = "KaggleKernelCredentials")
                  => last.value.credentials.target = "GCS"
    /\ last.op = "refresh" =>
           /\ Len(last.fetched) = 1
           /\ last.before.target = "BIGQUERY" => last.fetched[1] = "get_bigquery_access_token"
           /\ last.before.target = "GCS" => last.fetched[1] = "_get_gcs_access_token"
           /\ last.before.target = "AUTOML" => last.fetched[1] = "_get_automl_access_token"

\* the credentials of a storage client, refreshed before and now failing
C16_Witness ==
    /\ last.op = "refresh"
    /\ last.before.target = "GCS"
    /\ last.before.token # None
    /\ last.vault.raised # None
    /\ last.fetched = << "_get_gcs_access_token" >>

(* C17 *)

\* C17: every client the public route returns has KAGGLE_DATA_PROXY_PROJECT of
\* the environment as its project, anonymous credentials and a
\* _DataProxyConnection; refreshing those credentials raises nothing, changes
\* nothing in them and calls no access-token method of the vault; and every
\* request the client sends goes through that _DataProxyConnection with its
\* headers.
C17_PublicClient ==
    /\ (last.op = "bigquery.Client" /\ last.routes = << "public" >> /\ last.raised = None) =>
           /\ last.value.project = last.environ.KAGGLE_DATA_PROXY_PROJECT
           /\ last.value.credentials.py = "AnonymousCredentials"
           /\ "target" \notin DOMAIN last.value.credentials
           /\ last.value.connection.py = "_DataProxyConnection"
           /\ last.value.connection.extra_headers.X_KAGGLE_PROXY_DATA
                  = last.environ.KAGGLE_DATA_PROXY_TOKEN
           /\ last.constructed = << >>
    /\ last.op = "credentials.refresh" =>
           /\ last.client.project = os_environ.KAGGLE_DATA_PROXY_PROJECT
           /\ last.raised = None
           /\ last.after = last.client.credentials
           /\ last.fetched = << >>
           /\ last.out = << >>
    /\ last.op = "client.api_request" =>
           /\ last.client.project = os_environ.KAGGLE_DATA_PROXY_PROJECT
           /\ last.client.connection.py = "_DataProxyConnection"
           /\ last.sent.headers = last.client.connection.extra_headers

\* a request of a public client made for the second proxy project
C17_Witness ==
    /\ last.op = "client.api_request"
    /\ last.client.py = "PublicBigqueryClient"
    /\ last.client.project = Str("other-proxy-project")
    /\ last.sent.headers.X_KAGGLE_PROXY_DATA = ProxyToken(1)
    /\ last.raised = None

(* C18 *)

\* C18: a refresh that raises leaves the credential as it was before the call:
\* target, token and expiry are unchanged, so a credential never refreshed
\* stays without token and expiry and one refreshed before keeps the pair it
\* held.
C18_FailedRefreshChangesNothing ==
    (last.op = "refresh" /\ last.raised # None) =>
        /\ creds.target = last.before.target
        /\ creds.token = last.before.token
        /\ creds.expiry = last.before.expiry
        /\ creds = last.before

\* a backend error on a credential holding the first pair
C18_Witness ==
    /\ last.op = "refresh"
    /\ last.vault.raised.py = "BackendError"
    /\ last.raised.py = "RefreshError"
    /\ last.before.token = Token(1)
    /\ creds.expiry = Expiry(1)

(* C19 *)

\* C19: an init() run while neither KAGGLE_DATA_PROXY_TOKEN nor
\* KAGGLE_USER_SECRETS_TOKEN is set leaves bigquery.Client as it was, and one
\* run while KAGGLE_USER_SECRETS_TOKEN is not set or the integrations list
\* does not name GCS leaves storage.Client.__init__ as it was; a construction
\* through a constructor that was never replaced is the library's own: it
\* returns the library's client with the caller's project and credentials,
\* prints and logs nothing and creates no KaggleKernelCredentials.
C19_InactiveFlowsLeaveConstructors ==
    [][ /\ last'.op = "init" =>
               /\ ( /\ os_environ.KAGGLE_DATA_PROXY_TOKEN = None
                    /\ os_environ.KAGGLE_USER_SECRETS_TOKEN = None )
                      => bigquery_Client' = bigquery_Client
               /\ ( \/ os_environ.KAGGLE_USER_SECRETS_TOKEN = None
                    \/ "GCS" \notin NamedTargets(os_environ.KAGGLE_KERNEL_INTEGRATIONS) )
                      => storage_Client_init' = storage_Client_init
        /\ ( /\ last'.op \in {"bigquery.Client", "storage.Client"}
             /\ last'.callable \in {vendor_bigquery_Client, vendor_storage_Client_init} ) =>
               /\ last'.raised = None
               /\ last'.value.py = last'.op
               /\ last'.value.project
                      = (IF last'.kwargs.project = Omitted THEN None ELSE last'.kwargs.project)
               /\ last'.value.credentials
                      = (IF last'.kwargs.credentials = Omitted THEN None
                         ELSE last'.kwargs.credentials)
               /\ last'.out = << >>
               /\ last'.routes = << >>
               /\ last'.constructed = << >> ]_vars

\* init() has run twice with the user-secrets token set and a list that did
\* not name GCS at either run: bigquery.Client is replaced and
\* storage.Client.__init__ is not, and storage.Client() gave the library's
\* client with no credentials
C19_Witness ==
    /\ inits = 2
    /\ os_environ.KAGGLE_USER_SECRETS_TOKEN # None
    /\ has_been_monkeypatched(bigquery_Client)
    /\ storage_Client_init = vendor_storage_Client_init
    /\ last.op = "storage.Client"
    /\ last.callable = vendor_storage_Client_init
    /\ last.kwargs.credentials = Omitted
    /\ last.value.credentials = None

=============================================================================
